---- MODULE Spec2Model ----
(***************************************************************************)
(* A model of springhall_ui.py.                                            *)
(*                                                                         *)
(* The preset stores (SpringHallUI and PresetsWindow): construction        *)
(* (loading the four preset files), the SAVE button (_save_preset with     *)
(* _next_pos), and the preset browser (_rename, _delete, and the double    *)
(* click that runs _load_preset).                                          *)
(*                                                                         *)
(* The two-way binding of the main-screen sliders and the dials of the     *)
(* Edit page (_show_edit_preset, knob_to_slider, slider_to_knob,           *)
(* sync_controls, preset_values).                                          *)
(*                                                                         *)
(* The SoniSphere pad: its two cursors, the mouse handlers, the clamp to   *)
(* the circle, calculate_blend, and the corner buttons.                    *)
(*                                                                         *)
(* The modulation page (_show_modulation_page): the knobs of its three     *)
(* units, the save, update and select handlers of the three banks, and     *)
(* on_close.                                                               *)
(*                                                                         *)
(* Text is modelled as a sequence of one-character strings, so that        *)
(* str.strip() and the item-text round trip of the browser                 *)
(* (f"{name}  [{position}]" and .split("  [")[0]) are computed, not        *)
(* assumed.  A Python dict is modelled as the sequence of its entries in   *)
(* insertion order.  Slider values are the raw integer values 0..1000 of   *)
(* the QSlider; a preset stores value()/10, which is kept here as the      *)
(* number of tenths, and so are the values of preset_values.  Pad          *)
(* positions are whole pixels and blend weights are exact fractions: the   *)
(* event positions are chosen so that the clamp's arithmetic is exact.     *)
(***************************************************************************)
EXTENDS Integers, Sequences, FiniteSets, TLC

\* ------------------------------------------------------------------ bounds

\* Store operations (save, rename, delete) the user performs in one
\* session on a small store (Spec).
MaxOps == 4
\* Store operations in a session that starts from one of the large stores
\* of an earlier session (SpecGrid).
MaxGridOps == 2

\* ------------------------------------------------------------------ text

\* str.strip(): whitespace removed at both ends.
RECURSIVE LStrip(_)
LStrip(s) ==
    IF s = <<>> THEN s
    ELSE IF Head(s) = " " THEN LStrip(Tail(s)) ELSE s

RECURSIVE RStrip(_)
RStrip(s) ==
    IF s = <<>> THEN s
    ELSE IF s[Len(s)] = " " THEN RStrip(SubSeq(s, 1, Len(s) - 1)) ELSE s

Strip(s) == RStrip(LStrip(s))

\* The separator of the browser's item text, "  [".
Sep == <<" ", " ", "[">>

IsPrefix(p, s) == Len(p) <= Len(s) /\ SubSeq(s, 1, Len(p)) = p

\* f"{n}  [{d.get('position', '')}]": the position is kept as one token.
ItemText(n, pos) == n \o Sep \o <<pos, "]">>

\* text.split("  [")[0]: the text before the first separator.
RECURSIVE SplitFirst(_)
SplitFirst(t) ==
    IF t = <<>> THEN <<>>
    ELSE IF IsPrefix(Sep, t) THEN <<>>
    ELSE <<Head(t)>> \o SplitFirst(Tail(t))

\* ------------------------------------------------------------------ dict

\* A dict is a sequence of entries [name, ...] with pairwise distinct names.
DictKeys(d) == {d[i].name : i \in DOMAIN d}

DictHas(d, k) == k \in DictKeys(d)

DictIndex(d, k) == CHOOSE i \in DOMAIN d : d[i].name = k

DictGet(d, k) == d[DictIndex(d, k)]

\* d.pop(k) for a key that is present: the dict without the entry.
DictWithout(d, k) ==
    LET i == DictIndex(d, k)
    IN  SubSeq(d, 1, i - 1) \o SubSeq(d, i + 1, Len(d))

\* d[k] = e: an existing key keeps its place, a new key goes last.
DictSet(d, e) ==
    IF DictHas(d, e.name)
    THEN [i \in DOMAIN d |-> IF d[i].name = e.name THEN e ELSE d[i]]
    ELSE Append(d, e)

\* list(d): the keys in insertion order.
ListNames(d) == [i \in DOMAIN d |-> d[i].name]

\* ------------------------------------------------------------------ files

Missing == [kind |-> "missing", doc |-> <<>>]
Malformed == [kind |-> "malformed", doc |-> <<>>]
DocFile(doc) == [kind |-> "doc", doc |-> doc]

\* json.dump(d, f): the entries in insertion order.
JsonDump(d) == d

\* json.load(f): the object's members inserted one by one.
RECURSIVE JsonLoadInto(_, _)
JsonLoadInto(d, doc) ==
    IF doc = <<>> THEN d
    ELSE JsonLoadInto(DictSet(d, Head(doc)), Tail(doc))

JsonLoad(doc) == JsonLoadInto(<<>>, doc)

\* ------------------------------------------------------------------ grid

NumRows == 4
NumCols == 6
Rows == 1..NumRows
Cols == <<"A", "B", "C", "D", "E", "F">>
NoSlot == "??"

Pos(r, c) == ToString(r) \o Cols[c]

\* The nested loops of _next_pos, flattened: rows outside, columns inside.
ScanOrder ==
    [i \in 1..(NumRows * NumCols) |->
        Pos(((i - 1) \div NumCols) + 1, ((i - 1) % NumCols) + 1)]

UsedPositions(d) == {d[i].position : i \in DOMAIN d}

\* A plausible slip: a counter instead of a scan of the current occupancy.
CounterNextPos(d) ==
    IF Len(d) >= NumRows * NumCols THEN NoSlot ELSE ScanOrder[Len(d) + 1]

NextPos(d) ==
    LET used == UsedPositions(d)
        free == {i \in DOMAIN ScanOrder : ScanOrder[i] \notin used}
    IN  IF free = {} THEN NoSlot
        ELSE ScanOrder[CHOOSE i \in free : \A j \in free : i <= j]

\* ---------------------------------------------------------------- sliders

\* SpringHallUI.SLIDERS: the names, and int(default * 10) as set in _compose.
SliderNames == {"DECAY", "DAMPING", "WET/DRY", "LEVEL", "WEIGHT", "DIFFUSION"}

SliderDefaults ==
    [n \in SliderNames |->
        CASE n = "DECAY" -> 500
          [] n = "DAMPING" -> 254
          [] n = "WET/DRY" -> 265
          [] n = "LEVEL" -> 504
          [] n = "WEIGHT" -> 806
          [] n = "DIFFUSION" -> 500]

\* mod_value_map, bic_value_map, ech_value_map as the module defines them.
ValueMapDefaults ==
    [mod |-> [k \in {"Speed", "Shape", "Phase", "Spread"} |-> 0],
     bic |-> [k \in {"Rate", "Depth", "Tone", "Mix"} |-> 0],
     ech |-> [k \in {"Time", "FB", "Tone", "Mod", "Mix", "Level"} |-> 0]]

\* ------------------------------------------------------------------ inputs

\* What the user types into SavePresetDialog (besides accepting the text the
\* dialog is opened with): a plain name, the same name with blanks around
\* it, a blank text, and a name that contains the browser's separator.
NameA == <<"A">>
NameQ == <<"A", " ", " ", "[">>
Typed == {NameA, <<" ", "A", " ">>, NameQ, <<" ">>}

\* The list items the user selects: the first and the last of the list.
Selectable(items) == {i \in DOMAIN items : i = 1 \/ i = Len(items)}

\* Raw values the user drags a slider to, and the sliders the user drags.
SliderInputs == {120}
DraggedSliders == {"DECAY"}

\* Outcomes of open(path, "w") followed by json.dump: written, open() raised
\* (the file is as it was), or the write raised after open() truncated it.
IoOutcomes == {"ok", "open_fails", "dump_fails"}

\* Preset files left by an earlier session: k saves under the names P1..Pk
\* with the sliders at their defaults, each written by the save itself.
SessionName(i) == <<"P", ToString(i)>>

SessionEntry(i) ==
    [name |-> SessionName(i), position |-> ScanOrder[i],
     values |-> SliderDefaults, modulation |-> ValueMapDefaults]

PrevDoc(k) == [i \in 1..k |-> SessionEntry(i)]

\* A bank document of an earlier session (one stored bank preset).
BankDoc == <<[name |-> NameA, values |-> ValueMapDefaults.mod]>>

FileNames == {"main", "bic", "mod", "ech"}

\* ------------------------------------------------------- Edit-page knobs

\* The twelve dials _show_edit_preset builds (the source spells three of
\* them with a non-breaking hyphen, which matches no slider either).
KnobNames ==
    {"DECAY", "PRE-DELAY", "SIZE", "DAMPING", "DIFFUSION", "WIDTH",
     "MOD RATE", "MOD DEPTH", "MIX", "LEVEL", "LOW-CUT", "HIGH-CUT"}

\* key = "WET/DRY" if name.upper() == "MIX" else name.upper()
KnobKey(name) == IF name = "MIX" THEN "WET/DRY" ELSE name

\* sld = slider_widget_map.get(key); if sld: the knob is bound to a slider.
Bound(name) == KnobKey(name) \in SliderNames

\* self.preset_values.get(key, 50), in tenths.
PresetValue(pv, key) == IF key \in DOMAIN pv THEN pv[key] ELSE 500

\* int(round(val)) of a value given in tenths: Python rounds to the
\* nearest integer and a half to the even neighbour.
Round(t) ==
    LET q == t \div 10
        r == t % 10
    IN  IF r < 5 THEN q
        ELSE IF r > 5 THEN q + 1
        ELSE IF q % 2 = 0 THEN q ELSE q + 1

\* The module-level knob_widget_map: declared empty and never assigned to.
knob_widget_map == <<>>

\* sync_controls(name, value, "slider"): writes the knob registered under
\* the name in knob_widget_map, if there is one and its value differs.
sync_controls(name, value) ==
    IF name \in DOMAIN knob_widget_map /\ knob_widget_map[name] # value \div 10
    THEN {[ctl |-> "knob", page |-> 0, name |-> name]}
    ELSE {}

\* A plausible slip: the knob takes the slider's raw value.
CounterSliderToKnobValue(sv) == sv

\* kv = int(sv / 10) of slider_to_knob.
SliderToKnobValue(sv) == sv \div 10

\* A plausible slip: the slider takes the knob's value unscaled.
CounterKnobToSliderValue(kv) == kv

\* sv = kv * 10 of knob_to_slider.
KnobToSliderValue(kv) == kv * 10

\* One page of dials as the loop of _show_edit_preset builds it from
\* preset_values: each dial and its LCD show int(round(init)).
NewPage(pv) ==
    [dial |-> [k \in KnobNames |-> Round(PresetValue(pv, KnobKey(k)))],
     lcd  |-> [k \in KnobNames |-> Round(PresetValue(pv, KnobKey(k)))]]

\* ------------------------------------------------------- SoniSphere pad

Width == 1024
Height == 600
Radius == 200
Tolerance == 15

\* A point is <<x, y>> in pixels of the 1024 x 600 widget.
Centre == <<Width \div 2, Height \div 2>>
CursorStart == <<Centre[1] - 20, Centre[2]>>
SecondaryStart == <<Centre[1] + 20, Centre[2]>>
NoPoint == <<>>

Minus(p, q) == <<p[1] - q[1], p[2] - q[2]>>
Abs(n) == IF n < 0 THEN 0 - n ELSE n
SquaredLength(d) == d[1] * d[1] + d[2] * d[2]

\* (p - q).manhattanLength()
ManhattanLength(d) == Abs(d[1]) + Abs(d[2])

\* (dx**2 + dy**2)**0.5, for the offsets whose length is a whole number.
MaxLength == Width + Height
IsLength(d, r) == r * r = SquaredLength(d)
Length(d) == CHOOSE r \in 0..MaxLength : IsLength(d, r)

\* A plausible slip: the point is stored as it comes.
Unclamped(point, center, radius) == point

\* clamp_point_to_circle: dist > radius is decided on the squares; the
\* scaled offset dx * (radius / dist) is computed as dx * radius / dist.
clamp_point_to_circle(point, center, radius) ==
    LET d == Minus(point, center)
    IN  IF SquaredLength(d) > radius * radius
        THEN LET dist == Length(d)
             IN  <<center[1] + (d[1] * radius) \div dist,
                   center[2] + (d[2] * radius) \div dist>>
        ELSE point

\* Event positions for which the arithmetic above is exact: inside the
\* circle, or at a whole-number distance that divides both scaled offsets.
Exact(p) ==
    LET d == Minus(p, Centre)
    IN  \/ SquaredLength(d) <= Radius * Radius
        \/ \E r \in 1..MaxLength :
              /\ IsLength(d, r)
              /\ (d[1] * Radius) % r = 0
              /\ (d[2] * Radius) % r = 0

\* A plausible slip: x and y measured from the pad centre, no renormalising.
\* SoniSphere.presets as __init__ sets it, and the indexes of the four
\* buttons of a corner.
Corners == {"top_left", "top_right", "bottom_left", "bottom_right"}
CornerStart == [c \in Corners |-> 1]
CornerButtons == 0..3
PresetCycle == 10

\* f"{c}_{idx+1}": what a corner button passes to open_presets_page.
ButtonKey(c, idx) == c \o "_" \o ToString(idx + 1)

CentredBlend(pos) ==
    LET x == pos[1] - Centre[1]
        y == pos[2] - Centre[2]
    IN  [A |-> <<(Width - x) * (Height - y), Width * Height>>,
         B |-> <<x * (Height - y), Width * Height>>,
         C |-> <<(Width - x) * y, Width * Height>>,
         D |-> <<x * y, Width * Height>>]

\* calculate_blend for the primary cursor at pos: each weight as a fraction
\* <<numerator, denominator>>.  x = pos.x / width and y = pos.y / height, so
\* the four products are whole numbers over Width * Height, and dividing by
\* their total (or by 1 when the total is 0) leaves numerator / total.
calculate_blend(pos) ==
    LET x      == pos[1]
        y      == pos[2]
        top    == Height - y
        bottom == y
        left   == Width - x
        right  == x
        blend  == [A |-> left * top, B |-> right * top,
                   C |-> left * bottom, D |-> right * bottom]
        total  == blend.A + blend.B + blend.C + blend.D
    IN  [k \in {"A", "B", "C", "D"} |->
            IF total # 0 THEN <<blend[k], total>>
            ELSE <<blend[k], Width * Height>>]

\* ------------------------------------------------------------------ state

VARIABLES
    pc,                       \* "init", "running", or "crashed" (uncaught exception)
    files,                    \* the four preset files on disk
    presets,                  \* SpringHallUI.presets
    banks,                    \* bic_presets, mod_presets, ech_presets
    current_preset_name,
    current_preset_position,
    sliders,                  \* value() of each main-screen slider
    slider_label,             \* the number shown under each slider, in tenths
    value_maps,               \* mod_value_map, bic_value_map, ech_value_map
    win,                      \* the PresetsWindow: open?, and its list items
    dialog,                   \* the message dialog the last handler showed
    log,                      \* what the last handler printed
    last,                     \* the last user operation and its inputs
    ops_left,                 \* store operations and Edit-page openings left
    preset_values,            \* SpringHallUI.preset_values, in tenths
    dials,                    \* the knob pages built so far; the last is knob_controls
    edit_open,                \* the Edit page overlay covers the main screen
    bank_knobs,               \* mod_knobs, bic_knobs, ech_knobs once a page built them
    writes,                   \* controls the last slider or knob change wrote by sync
    xy_pad,                   \* a SoniSphere pad has been built
    cursor_pos,               \* SoniSphere: the primary cursor
    secondary_pos,            \* SoniSphere: the secondary cursor
    dragging,
    secondary_dragging,
    mouse,                    \* SoniSphere: position of the last mouse event
    corner_presets,           \* SoniSphere.presets: corner -> n of "Preset n"
    mod_open,                 \* the modulation page overlay covers the main screen
    bank_current              \* bic_, mod_, ech_current_preset (<<>> for None)

bindVars == <<preset_values, dials, edit_open, bank_knobs, writes>>
padVars == <<xy_pad, cursor_pos, secondary_pos, dragging, secondary_dragging, mouse,
             corner_presets>>
bankVars == <<mod_open, bank_current>>

vars == <<pc, files, presets, banks, current_preset_name, current_preset_position,
          sliders, slider_label, value_maps, win, dialog, log, last, ops_left,
          bindVars, padVars, bankVars>>

NoOp == [op |-> "none", old |-> <<>>, new |-> <<>>, io |-> "none"]
Closed == [open |-> FALSE, items |-> <<>>]

\* The fields __init__ sets before it reads any file.
InitWith(fs, budget) ==
    /\ pc = "init"
    /\ files = fs
    /\ presets = <<>>
    /\ banks = [b \in {"bic", "mod", "ech"} |-> <<>>]
    /\ current_preset_name = <<"SpringHall">>
    /\ current_preset_position = "1A"
    /\ sliders = SliderDefaults
    /\ slider_label = SliderDefaults
    /\ value_maps = ValueMapDefaults
    /\ win = Closed
    /\ dialog = "none"
    /\ log = "none"
    /\ last = NoOp
    /\ ops_left = budget
    /\ preset_values = SliderDefaults
    /\ dials = <<>>
    /\ edit_open = FALSE
    /\ bank_knobs = <<>>
    /\ writes = {}
    /\ xy_pad = FALSE
    /\ cursor_pos = CursorStart
    /\ secondary_pos = SecondaryStart
    /\ dragging = FALSE
    /\ secondary_dragging = FALSE
    /\ mouse = NoPoint
    /\ corner_presets = CornerStart
    /\ mod_open = FALSE
    /\ bank_current = [b \in {"bic", "mod", "ech"} |-> <<>>]

FileKinds(docs) == {Missing, Malformed} \cup {DocFile(d) : d \in docs}

\* A session on a small store: no bank files, and the main file missing,
\* unreadable, or holding one preset.
Init ==
    \E m \in FileKinds({}) :
        InitWith([f \in FileNames |-> IF f = "main" THEN m ELSE Missing], MaxOps)

\* ------------------------------------------------------------ construction

\* load_presets(path) of __init__: no try/except around json.load.
LoadPresetsRaises(f) == f.kind = "malformed"

LoadPresets(f) == IF f.kind = "doc" THEN JsonLoad(f.doc) ELSE <<>>

\* The main preset file is read inside try/except Exception, which prints
\* the error and leaves self.presets = {}.
LoadMainFile(f) ==
    CASE f.kind = "doc" -> [presets |-> JsonLoad(f.doc), log |-> "loaded"]
      [] f.kind = "malformed" -> [presets |-> <<>>, log |-> "read error"]
      [] OTHER -> [presets |-> <<>>, log |-> "none"]

\* SpringHallUI.__init__: the three banks, then the main preset file.
Construct ==
    /\ pc = "init"
    /\ IF \E b \in {"bic", "mod", "ech"} : LoadPresetsRaises(files[b])
       THEN /\ pc' = "crashed"
            /\ log' = "uncaught exception"
            /\ UNCHANGED <<presets, banks>>
       ELSE /\ pc' = "running"
            /\ banks' = [b \in {"bic", "mod", "ech"} |-> LoadPresets(files[b])]
            /\ presets' = LoadMainFile(files["main"]).presets
            /\ log' = LoadMainFile(files["main"]).log
    /\ last' = [NoOp EXCEPT !.op = "construct"]
    /\ UNCHANGED <<files, current_preset_name, current_preset_position, sliders,
                   slider_label, value_maps, win, dialog, ops_left>>
    /\ UNCHANGED <<bindVars, padVars, bankVars>>

\* ------------------------------------------------------------- main screen

\* The main screen takes input while no overlay covers it.
MainScreen == pc = "running" /\ ~win.open /\ ~edit_open /\ ~mod_open

\* The sliders whose valueChanged fires when the sliders take the values
\* `new` with signals unblocked: those whose value differs.
Changed(new) == {n \in SliderNames : new[n] # sliders[n]}

\* First slot of a slider, connected in _compose: the label shows v / 10.
LabelsAfter(new) ==
    [n \in SliderNames |-> IF n \in Changed(new) THEN new[n] ELSE slider_label[n]]

\* The slider_to_knob closures: every opening of the Edit page connects one
\* more per bound knob and none is ever disconnected, so each page built so
\* far has its dial set (signals blocked, its LCD left alone).
DialsAfter(new) ==
    [i \in DOMAIN dials |->
        [dial |-> [k \in KnobNames |->
                     IF KnobKey(k) \in Changed(new)
                     THEN SliderToKnobValue(new[KnobKey(k)])
                     ELSE dials[i].dial[k]],
         lcd  |-> dials[i].lcd]]

\* slider_to_knob ends with self.preset_values[key] = kv; it runs only once
\* a page has connected it, and only for a slider that has a knob.
PresetValuesAfter(new) ==
    [key \in DOMAIN preset_values |->
        IF /\ key \in Changed(new)
           /\ dials # <<>>
           /\ \E k \in KnobNames : KnobKey(k) = key
        THEN SliderToKnobValue(new[key]) * 10
        ELSE preset_values[key]]

\* The controls the slots of the changed sliders write: a dial is written
\* when d.value() != kv, and sync_controls writes what knob_widget_map holds.
KnobWrites(new) ==
    {w \in [ctl : {"knob"}, page : DOMAIN dials, name : KnobNames] :
        /\ KnobKey(w.name) \in Changed(new)
        /\ dials[w.page].dial[w.name] # SliderToKnobValue(new[KnobKey(w.name)])}
    \cup UNION {sync_controls(n, new[n]) : n \in Changed(new)}

\* A slider dragged to raw value v: valueChanged (and sliderMoved, whose
\* slider_to_knob finds the dial already set) fires when the value changes.
MoveSlider(n, v) ==
    LET new == [sliders EXCEPT ![n] = v]
    IN
    /\ MainScreen
    /\ sliders[n] # v
    /\ sliders' = new
    /\ slider_label' = LabelsAfter(new)
    /\ dials' = DialsAfter(new)
    /\ preset_values' = PresetValuesAfter(new)
    /\ writes' = KnobWrites(new)
    /\ last' = [NoOp EXCEPT !.op = "slider"]
    /\ dialog' = "none"
    /\ log' = "none"
    /\ UNCHANGED <<pc, files, presets, banks, current_preset_name,
                   current_preset_position, value_maps, win, ops_left>>
    /\ UNCHANGED <<edit_open, bank_knobs, padVars, bankVars>>

\* The entry _save_preset stores under the name: slot, slider values / 10,
\* and copies of the three modulation maps.
NewEntry(name, suggested) ==
    [name |-> name, position |-> suggested,
     values |-> [n \in SliderNames |-> sliders[n]],
     modulation |-> value_maps]

\* A plausible slip: the duplicate check missing, the entry overwritten.
SaveRejectsNothing(d, name) == FALSE

\* if name in self.presets: "Duplicate Name" and return.
SaveRejects(d, name) == DictHas(d, name)

\* The file after open(self.preset_file, "w") and json.dump(self.presets).
WriteFile(f, d, io) ==
    CASE io = "ok" -> DocFile(JsonDump(d))
      [] io = "open_fails" -> f
      [] OTHER -> Malformed

\* The SAVE button: _save_preset.  `typed` is the text of the dialog's line
\* edit on Save, `accepted` is FALSE for Cancel.
SavePreset(typed, accepted, io) ==
    LET suggested == NextPos(presets)
        name      == Strip(Strip(typed))
    IN
    /\ MainScreen
    /\ ops_left > 0
    /\ last' = IF accepted
               THEN [op |-> "save", old |-> <<>>, new |-> name, io |-> io]
               ELSE [NoOp EXCEPT !.op = "save"]
    /\ IF ~accepted
       THEN /\ io = "ok"
            /\ dialog' = "none"
            /\ log' = "none"
            /\ UNCHANGED <<presets, files, current_preset_name,
                           current_preset_position, ops_left>>
       ELSE IF name = <<>>
       THEN /\ io = "ok"
            /\ dialog' = "Invalid Input"
            /\ log' = "none"
            /\ UNCHANGED <<presets, files, current_preset_name,
                           current_preset_position, ops_left>>
       ELSE IF SaveRejects(presets, name)
       THEN /\ io = "ok"
            /\ dialog' = "Duplicate Name"
            /\ log' = "none"
            /\ UNCHANGED <<presets, files, current_preset_name,
                           current_preset_position, ops_left>>
       ELSE /\ presets' = DictSet(presets, NewEntry(name, suggested))
            /\ files' = [files EXCEPT
                            !["main"] = WriteFile(@, presets', io)]
            /\ log' = IF io = "ok" THEN "written" ELSE "write error"
            /\ current_preset_name' = name
            /\ current_preset_position' = suggested
            /\ dialog' = "Success"
            /\ ops_left' = ops_left - 1
    /\ UNCHANGED <<pc, banks, sliders, slider_label, value_maps, win>>
    /\ UNCHANGED <<bindVars, padVars, bankVars>>

\* The PRESETS button: _show_presets builds a PresetsWindow over an overlay;
\* _populate makes one list item per preset.
ShowPresets ==
    /\ MainScreen
    /\ win' = [open |-> TRUE,
               items |-> [i \in DOMAIN presets |->
                            ItemText(presets[i].name, presets[i].position)]]
    /\ last' = [NoOp EXCEPT !.op = "show"]
    /\ dialog' = "none"
    /\ log' = "none"
    /\ UNCHANGED <<pc, files, presets, banks, current_preset_name,
                   current_preset_position, sliders, slider_label, value_maps,
                   ops_left>>
    /\ UNCHANGED <<bindVars, padVars, bankVars>>

\* ---------------------------------------------------------- PresetsWindow

Browsing == pc = "running" /\ win.open

\* Done / Close: the window and its overlay close.
CloseWindow ==
    /\ Browsing
    /\ win' = Closed
    /\ last' = [NoOp EXCEPT !.op = "close"]
    /\ dialog' = "none"
    /\ log' = "none"
    /\ UNCHANGED <<pc, files, presets, banks, current_preset_name,
                   current_preset_position, sliders, slider_label, value_maps,
                   ops_left>>
    /\ UNCHANGED <<bindVars, padVars, bankVars>>

\* A plausible slip: the entry stored under the new key without its slot.
RenamedStoreLosingSlot(d, old, new) ==
    DictSet(DictWithout(d, old),
            [DictGet(d, old) EXCEPT !.name = new, !.position = NextPos(d)])

\* self.presets[new] = self.presets.pop(old)
RenamedStore(d, old, new) ==
    DictSet(DictWithout(d, old), [DictGet(d, old) EXCEPT !.name = new])

\* A plausible slip: the duplicate check missing.
RenameRejectsNothing(d, old, new) == FALSE

\* if new != old and new in self.presets: "Duplicate Name" and return.
RenameRejects(d, old, new) == new # old /\ DictHas(d, new)

\* The Update button: _rename on the selected item i.  The dialog opens
\* with the old name; `typed` is its text on Save.
Rename(i, typed, accepted) ==
    LET old == SplitFirst(win.items[i])
        new == Strip(typed)
    IN
    /\ Browsing
    /\ ops_left > 0
    /\ i \in DOMAIN win.items
    /\ last' = IF accepted
               THEN [op |-> "rename", old |-> old, new |-> new, io |-> "ok"]
               ELSE [NoOp EXCEPT !.op = "rename"]
    /\ log' = "none"
    /\ IF ~accepted
       THEN /\ dialog' = "none"
            /\ UNCHANGED <<pc, presets, win, ops_left>>
       ELSE IF new = <<>>
       THEN /\ dialog' = "Invalid Input"
            /\ UNCHANGED <<pc, presets, win, ops_left>>
       ELSE IF RenameRejects(presets, old, new)
       THEN /\ dialog' = "Duplicate Name"
            /\ UNCHANGED <<pc, presets, win, ops_left>>
       ELSE IF ~DictHas(presets, old)
       THEN \* pop(old) raises KeyError in the slot; nothing catches it.
            /\ pc' = "crashed"
            /\ dialog' = "none"
            /\ UNCHANGED <<presets, win, ops_left>>
       ELSE /\ presets' = RenamedStore(presets, old, new)
            /\ win' = [win EXCEPT !.items[i] =
                         ItemText(new, DictGet(presets', new).position)]
            /\ dialog' = "none"
            /\ ops_left' = ops_left - 1
            /\ UNCHANGED pc
    /\ UNCHANGED <<files, banks, current_preset_name, current_preset_position,
                   sliders, slider_label, value_maps>>
    /\ UNCHANGED <<bindVars, padVars, bankVars>>

\* self.presets.pop(name, None)
DeletedStore(d, name) == IF DictHas(d, name) THEN DictWithout(d, name) ELSE d

\* The Delete button: _delete on the selected item i; `yes` answers the
\* confirmation question.
Delete(i, yes) ==
    LET name == SplitFirst(win.items[i])
    IN
    /\ Browsing
    /\ ops_left > 0
    /\ i \in DOMAIN win.items
    /\ last' = IF yes
               THEN [op |-> "delete", old |-> name, new |-> <<>>, io |-> "ok"]
               ELSE [NoOp EXCEPT !.op = "delete"]
    /\ log' = "none"
    /\ dialog' = "none"
    /\ IF yes
       THEN /\ presets' = DeletedStore(presets, name)
            /\ win' = [win EXCEPT !.items =
                         SubSeq(@, 1, i - 1) \o SubSeq(@, i + 1, Len(@))]
            /\ ops_left' = ops_left - 1
       ELSE UNCHANGED <<presets, win, ops_left>>
    /\ UNCHANGED <<pc, files, banks, current_preset_name,
                   current_preset_position, sliders, slider_label, value_maps>>
    /\ UNCHANGED <<bindVars, padVars, bankVars>>

\* The name _load_preset holds when it reaches its last lines: the loops
\* over mod_knobs, bic_knobs and ech_knobs rebind `name` to each knob label,
\* the last being "Level" of ech_knobs.
LastKnobLabel == <<"L", "e", "v", "e", "l">>

\* for k, v in mod_vals.items(): mod_value_map[k] = v  (and bic, ech).
MergedValueMaps(modulation) ==
    [b \in DOMAIN value_maps |->
        [k \in DOMAIN value_maps[b] |->
            IF b \in DOMAIN modulation /\ k \in DOMAIN modulation[b]
            THEN modulation[b][k]
            ELSE value_maps[b][k]]]

\* A plausible slip: the load leaves the current selection where it was.
KeptPosition(data) == current_preset_position

\* self.current_preset_position = data["position"].
LoadedPosition(data) == data.position

\* Double click on list item i: _dbl_clicked emits the text before the
\* separator, _load_preset runs, and the window closes.
LoadPreset(i) ==
    LET name == SplitFirst(win.items[i])
        data == DictGet(presets, name)
        new  == [n \in SliderNames |->
                    IF n \in DOMAIN data.values THEN data.values[n] ELSE 0]
    IN
    /\ Browsing
    /\ i \in DOMAIN win.items
    /\ win' = Closed
    /\ dialog' = "none"
    /\ log' = "none"
    /\ IF ~DictHas(presets, name)
       THEN /\ last' = [NoOp EXCEPT !.op = "load"]
            /\ UNCHANGED <<sliders, slider_label, dials, preset_values, writes,
                           value_maps, bank_knobs, current_preset_name,
                           current_preset_position>>
       ELSE /\ last' = [NoOp EXCEPT !.op = "load", !.old = name]
            /\ sliders' = new
            /\ slider_label' = LabelsAfter(new)
            /\ dials' = DialsAfter(new)
            /\ preset_values' = PresetValuesAfter(new)
            /\ writes' = KnobWrites(new)
            /\ value_maps' = MergedValueMaps(data.modulation)
            /\ bank_knobs' = IF bank_knobs = <<>> THEN <<>> ELSE value_maps'
            /\ current_preset_name' =
                   IF bank_knobs = <<>> THEN name ELSE LastKnobLabel
            /\ current_preset_position' = LoadedPosition(data)
    /\ UNCHANGED <<pc, files, presets, banks, ops_left, edit_open, padVars, bankVars>>

\* ---------------------------------------------------------------- Edit page

\* The EDIT button: _show_edit_preset sets every slider, signals blocked, to
\* int(preset_values * 10), then builds twelve new dials from preset_values
\* and connects the bound ones to their sliders.
ShowEditPreset ==
    /\ MainScreen
    /\ ops_left > 0
    /\ ops_left' = ops_left - 1
    /\ sliders' = [n \in SliderNames |-> PresetValue(preset_values, KnobKey(n))]
    /\ dials' = Append(dials, NewPage(preset_values))
    /\ edit_open' = TRUE
    /\ writes' = {}
    /\ last' = [NoOp EXCEPT !.op = "edit"]
    /\ dialog' = "none"
    /\ log' = "none"
    /\ UNCHANGED <<pc, files, presets, banks, current_preset_name,
                   current_preset_position, slider_label, value_maps, win,
                   preset_values, bank_knobs, padVars, bankVars>>

\* A dial of the open page turned to kv: knob_to_slider (for a bound knob),
\* then the LCD lambda.
TurnKnob(name, kv) ==
    LET page == Len(dials)
        key  == KnobKey(name)
        sv   == KnobToSliderValue(kv)
    IN
    /\ pc = "running"
    /\ edit_open
    /\ dials[page].dial[name] # kv
    /\ dials' = [dials EXCEPT ![page].dial[name] = kv, ![page].lcd[name] = kv]
    /\ IF Bound(name)
       THEN /\ sliders' = [sliders EXCEPT ![key] = sv]
            /\ preset_values' = [preset_values EXCEPT ![key] = kv * 10]
            /\ writes' = IF sliders[key] # sv
                         THEN {[ctl |-> "slider", page |-> 0, name |-> key]}
                         ELSE {}
       ELSE /\ writes' = {}
            /\ UNCHANGED <<sliders, preset_values>>
    /\ last' = [NoOp EXCEPT !.op = "knob"]
    /\ dialog' = "none"
    /\ log' = "none"
    /\ UNCHANGED <<pc, files, presets, banks, current_preset_name,
                   current_preset_position, slider_label, value_maps, win,
                   ops_left, edit_open, bank_knobs, padVars, bankVars>>

\* SAVE (prints the dial values) or CANCEL: both only close the overlay.
CloseEdit(save) ==
    /\ pc = "running"
    /\ edit_open
    /\ edit_open' = FALSE
    /\ log' = IF save THEN "knob values" ELSE "none"
    /\ dialog' = "none"
    /\ last' = [NoOp EXCEPT !.op = "close edit"]
    /\ UNCHANGED <<pc, files, presets, banks, current_preset_name,
                   current_preset_position, sliders, slider_label, value_maps,
                   win, ops_left, preset_values, dials, bank_knobs, writes,
                   padVars, bankVars>>

\* ------------------------------------------------------------- SoniSphere

\* The SoniSphere tile of the mode page: _show_sonisphere_page builds a new
\* SoniSphere, whose __init__ places both cursors and clears both flags.
ShowSonispherePage ==
    /\ MainScreen
    /\ xy_pad' = TRUE
    /\ cursor_pos' = CursorStart
    /\ secondary_pos' = SecondaryStart
    /\ dragging' = FALSE
    /\ secondary_dragging' = FALSE
    /\ mouse' = NoPoint
    /\ corner_presets' = CornerStart
    /\ last' = [NoOp EXCEPT !.op = "pad"]
    /\ UNCHANGED <<pc, files, presets, banks, current_preset_name,
                   current_preset_position, sliders, slider_label, value_maps,
                   win, dialog, log, ops_left, bindVars, bankVars>>

\* mousePressEvent at p.  While a drag is on, the pointer is where the last
\* event left it, so a further button goes down there.
MousePress(p) ==
    /\ pc = "running"
    /\ xy_pad
    /\ dragging \/ secondary_dragging => p = mouse
    /\ IF ManhattanLength(Minus(cursor_pos, p)) < Tolerance
       THEN dragging' = TRUE /\ UNCHANGED secondary_dragging
       ELSE IF ManhattanLength(Minus(secondary_pos, p)) < Tolerance
       THEN secondary_dragging' = TRUE /\ UNCHANGED dragging
       ELSE UNCHANGED <<dragging, secondary_dragging>>
    /\ mouse' = p
    /\ last' = [NoOp EXCEPT !.op = "press"]
    /\ UNCHANGED <<pc, files, presets, banks, current_preset_name,
                   current_preset_position, sliders, slider_label, value_maps,
                   win, dialog, log, ops_left, bindVars, bankVars, corner_presets,
                   xy_pad, cursor_pos,
                   secondary_pos>>

\* mouseMoveEvent at p (mouse tracking is on: also with no button down).
MouseMove(p) ==
    /\ pc = "running"
    /\ xy_pad
    /\ p # mouse
    /\ IF dragging
       THEN /\ cursor_pos' = clamp_point_to_circle(p, Centre, Radius)
            /\ UNCHANGED secondary_pos
       ELSE IF secondary_dragging
       THEN /\ secondary_pos' = clamp_point_to_circle(p, Centre, Radius)
            /\ UNCHANGED cursor_pos
       ELSE UNCHANGED <<cursor_pos, secondary_pos>>
    /\ mouse' = p
    /\ last' = [NoOp EXCEPT !.op = "move"]
    /\ UNCHANGED <<pc, files, presets, banks, current_preset_name,
                   current_preset_position, sliders, slider_label, value_maps,
                   win, dialog, log, ops_left, bindVars, bankVars, corner_presets,
                   xy_pad, dragging,
                   secondary_dragging>>

\* mouseReleaseEvent: both flags cleared.
MouseRelease ==
    /\ pc = "running"
    /\ xy_pad
    /\ mouse # NoPoint
    /\ dragging' = FALSE
    /\ secondary_dragging' = FALSE
    /\ last' = [NoOp EXCEPT !.op = "release"]
    /\ UNCHANGED <<pc, files, presets, banks, current_preset_name,
                   current_preset_position, sliders, slider_label, value_maps,
                   win, dialog, log, ops_left, bindVars, bankVars, corner_presets,
                   xy_pad, cursor_pos,
                   secondary_pos, mouse>>

\* The CENTER button (clicked, or triggered from the keyboard while it has
\* the focus): reset_positions moves both cursors and leaves the flags.
reset_positions ==
    /\ pc = "running"
    /\ xy_pad
    /\ cursor_pos' = CursorStart
    /\ secondary_pos' = SecondaryStart
    /\ last' = [NoOp EXCEPT !.op = "reset"]
    /\ UNCHANGED <<pc, files, presets, banks, current_preset_name,
                   current_preset_position, sliders, slider_label, value_maps,
                   win, dialog, log, ops_left, bindVars, bankVars, corner_presets,
                   xy_pad, dragging,
                   secondary_dragging, mouse>>

\* --------------------------------------------------------- modulation page

\* The three units of the page in the order on_close goes through them.
BankOrder == <<"bic", "mod", "ech">>

\* The MODULATION tile: _show_modulation_page builds the knobs of the three
\* units, each set to int(value_map.get(name, 0)) before its valueChanged is
\* connected, and keeps them as self.bic_knobs, self.mod_knobs,
\* self.ech_knobs.  (_show_dynamics_page builds the same knobs and handlers.)
ShowModulationPage ==
    /\ MainScreen
    /\ mod_open' = TRUE
    /\ bank_knobs' = value_maps
    /\ last' = [NoOp EXCEPT !.op = "page"]
    /\ dialog' = "none"
    /\ log' = "none"
    /\ UNCHANGED <<pc, files, presets, banks, current_preset_name,
                   current_preset_position, sliders, slider_label, value_maps,
                   win, ops_left, preset_values, dials, edit_open, writes,
                   padVars, bank_current>>

\* A knob of the open page turned to v: its lambda updates the value map.
TurnBankKnob(b, k, v) ==
    /\ pc = "running"
    /\ mod_open
    /\ bank_knobs[b][k] # v
    /\ bank_knobs' = [bank_knobs EXCEPT ![b][k] = v]
    /\ value_maps' = [value_maps EXCEPT ![b][k] = v]
    /\ last' = [NoOp EXCEPT !.op = "bank knob", !.old = <<b>>]
    /\ dialog' = "none"
    /\ log' = "none"
    /\ UNCHANGED <<pc, files, presets, banks, current_preset_name,
                   current_preset_position, sliders, slider_label, win,
                   ops_left, preset_values, dials, edit_open, writes, padVars,
                   bankVars>>

\* The handlers save_preset, update_preset and show_preset_selector of the
\* page follow as the page defines them; the lines that create the SAVE,
\* UPDATE and PRESETS buttons and connect them are commented out in this
\* revision of the file.

\* get_bic_knob_values(), get_mod_knob_values(), get_ech_knob_values().
get_knob_values(b) == bank_knobs[b]

\* presets_dict[name] = get_knobs_func().
BankStored(d, name, values) == DictSet(d, [name |-> name, values |-> values])

\* A plausible slip: the answer to "Overwrite?" ignored.
OverwriteNeverDeclined(d, name, overwrite) == FALSE

\* if name in presets_dict: ... if overwrite_dialog.exec_() == No: return.
OverwriteDeclined(d, name, overwrite) == DictHas(d, name) /\ ~overwrite

\* self.save_mod_presets(): the closure __init__ stored on the instance,
\* which dumps self.mod_presets into the mod file; it catches nothing.
save_mod_presets(bs, io) ==
    [files EXCEPT !["mod"] = WriteFile(@, bs["mod"], io)]

\* save_preset of unit b: `typed` is the text of the dialog's line edit,
\* `accepted` is FALSE for Cancel, `overwrite` is the answer to "Overwrite?".
save_preset(b, typed, accepted, overwrite, io) ==
    LET name == Strip(typed)
        bs   == [banks EXCEPT ![b] = BankStored(@, name, get_knob_values(b))]
        \* the unit, and the answer where "Overwrite?" was asked
        asked == IF DictHas(banks[b], name)
                 THEN <<b, IF overwrite THEN "yes" ELSE "no">>
                 ELSE <<b>>
    IN
    /\ pc = "running"
    /\ mod_open
    /\ log' = "none"
    /\ UNCHANGED <<presets, current_preset_name, current_preset_position,
                   sliders, slider_label, value_maps, win, ops_left, bindVars,
                   padVars, mod_open>>
    /\ IF ~accepted \/ name = <<>>
       THEN /\ io = "ok" /\ ~overwrite
            /\ last' = [NoOp EXCEPT !.op = "bank save", !.old = <<b>>]
            /\ dialog' = "none"
            /\ UNCHANGED <<pc, files, banks, bank_current>>
       ELSE IF OverwriteDeclined(banks[b], name, overwrite)
       THEN /\ io = "ok"
            /\ last' = [op |-> "bank save", old |-> asked, new |-> name,
                        io |-> "none"]
            /\ dialog' = "overwrite declined"
            /\ UNCHANGED <<pc, files, banks, bank_current>>
       ELSE /\ DictHas(banks[b], name) \/ ~overwrite
            /\ last' = [op |-> "bank save", old |-> asked, new |-> name,
                        io |-> io]
            /\ banks' = bs
            /\ bank_current' = [bank_current EXCEPT ![b] = name]
            /\ dialog' = "saved"
            /\ files' = save_mod_presets(bs, io)
            /\ pc' = IF io = "ok" THEN pc ELSE "crashed"

\* update_preset of unit b.
update_preset(b, io) ==
    LET name == bank_current[b]
        bs   == [banks EXCEPT ![b] = BankStored(@, name, get_knob_values(b))]
    IN
    /\ pc = "running"
    /\ mod_open
    /\ log' = "none"
    /\ UNCHANGED <<presets, current_preset_name, current_preset_position,
                   sliders, slider_label, value_maps, win, ops_left, bindVars,
                   padVars, bankVars>>
    /\ IF name = <<>>
       THEN /\ io = "ok"
            /\ last' = [NoOp EXCEPT !.op = "bank update", !.old = <<b>>]
            /\ dialog' = "no preset selected"
            /\ UNCHANGED <<pc, files, banks>>
       ELSE /\ last' = [op |-> "bank update", old |-> <<b>>, new |-> name,
                        io |-> io]
            /\ banks' = bs
            /\ dialog' = "none"
            /\ files' = save_mod_presets(bs, io)
            /\ pc' = IF io = "ok" THEN pc ELSE "crashed"

\* show_preset_selector of unit b with item i chosen and OK pressed: the
\* unit's knobs take the preset's values (each change updates the value
\* map) and the preset becomes the unit's current one.
select_preset(b, i) ==
    LET values == banks[b][i].values
        knobs  == [k \in DOMAIN bank_knobs[b] |->
                     IF k \in DOMAIN values THEN values[k] ELSE bank_knobs[b][k]]
    IN
    /\ pc = "running"
    /\ mod_open
    /\ i \in DOMAIN banks[b]
    /\ bank_knobs' = [bank_knobs EXCEPT ![b] = knobs]
    /\ value_maps' = [value_maps EXCEPT ![b] = knobs]
    /\ bank_current' = [bank_current EXCEPT ![b] = banks[b][i].name]
    /\ last' = [NoOp EXCEPT !.op = "bank select", !.old = <<b>>,
                            !.new = banks[b][i].name]
    /\ dialog' = "none"
    /\ log' = "none"
    /\ UNCHANGED <<pc, files, presets, banks, current_preset_name,
                   current_preset_position, sliders, slider_label, win,
                   ops_left, preset_values, dials, edit_open, writes, padVars,
                   mod_open>>

\* on_close from unit i on: a unit with a current preset stores its knob
\* values under that name and writes its own file; the first write that
\* raises ends the handler.
RECURSIVE CloseFrom(_, _, _)
CloseFrom(i, st, ios) ==
    IF i > Len(BankOrder) \/ st.raised THEN st
    ELSE LET b == BankOrder[i] IN
         IF bank_current[b] = <<>> THEN CloseFrom(i + 1, st, ios)
         ELSE LET bs == [st.banks EXCEPT
                            ![b] = BankStored(@, bank_current[b],
                                              get_knob_values(b))]
              IN  CloseFrom(i + 1,
                            [banks  |-> bs,
                             files  |-> [st.files EXCEPT
                                            ![b] = WriteFile(@, bs[b], ios[b])],
                             raised |-> ios[b] # "ok"],
                            ios)

\* The CLOSE button of the page: on_close, then the overlay closes.
on_close(ios) ==
    LET st == CloseFrom(1, [banks |-> banks, files |-> files, raised |-> FALSE],
                        ios)
    IN
    /\ pc = "running"
    /\ mod_open
    /\ \A b \in DOMAIN ios : bank_current[b] = <<>> => ios[b] = "ok"
    /\ banks' = st.banks
    /\ files' = st.files
    /\ pc' = IF st.raised THEN "crashed" ELSE pc
    /\ mod_open' = st.raised
    /\ last' = [NoOp EXCEPT !.op = "bank close"]
    /\ dialog' = "none"
    /\ log' = IF st.raised THEN "uncaught exception" ELSE "none"
    /\ UNCHANGED <<presets, current_preset_name, current_preset_position,
                   sliders, slider_label, value_maps, win, ops_left, bindVars,
                   padVars, bank_current>>

\* A corner button (PRESETS, EDIT, LFO or ACTIVE): open_presets_page with
\* the button's key.  self.presets[corner] in the first statement raises
\* KeyError for a key the dict does not hold; otherwise the presets browser
\* opens and the corner's preset number goes to current_num % 10 + 1.
open_presets_page(corner) ==
    /\ pc = "running"
    /\ xy_pad
    /\ last' = [NoOp EXCEPT !.op = "corner", !.new = <<corner>>]
    /\ dialog' = "none"
    /\ IF corner \notin DOMAIN corner_presets
       THEN /\ pc' = "crashed"
            /\ log' = "uncaught exception"
            /\ UNCHANGED <<win, corner_presets>>
       ELSE /\ pc' = pc
            /\ log' = "none"
            /\ win' = [open |-> TRUE,
                       items |-> [i \in DOMAIN presets |->
                                    ItemText(presets[i].name, presets[i].position)]]
            /\ corner_presets' =
                   [corner_presets EXCEPT ![corner] = (@ % PresetCycle) + 1]
    /\ UNCHANGED <<files, presets, banks, current_preset_name,
                   current_preset_position, sliders, slider_label, value_maps,
                   ops_left, bindVars, bankVars, xy_pad, cursor_pos,
                   secondary_pos, dragging, secondary_dragging, mouse>>

\* ----------------------------------------------------------- specification

Next ==
    \/ Construct
    \/ \E n \in DraggedSliders, v \in SliderInputs : MoveSlider(n, v)
    \/ \E t \in Typed \cup {current_preset_name}, io \in IoOutcomes :
          SavePreset(t, TRUE, io)
    \/ SavePreset(current_preset_name, FALSE, "ok")
    \/ ShowPresets
    \/ CloseWindow
    \/ \E i \in Selectable(win.items) :
          \E t \in Typed \cup {SplitFirst(win.items[i])} : Rename(i, t, TRUE)
    \/ \E i \in Selectable(win.items) :
          Rename(i, SplitFirst(win.items[i]), FALSE)
    \/ \E i \in Selectable(win.items) : Delete(i, TRUE)
    \/ \E i \in Selectable(win.items) : Delete(i, FALSE)

Spec == Init /\ [][Next]_vars

\* A session that starts from the store an earlier session left on disk
\* after k saves into an empty store.  A session makes up to MaxGridOps
\* saves, so the sessions that start at every MaxGridOps-th k (and at the
\* full grid) make every save of the chain from the empty store to the full
\* grid and beyond.
GridStarts ==
    {k \in 0..(NumRows * NumCols) :
        k % MaxGridOps = 0 \/ k = NumRows * NumCols}

InitGrid ==
    \E k \in GridStarts :
        InitWith([f \in FileNames |->
                    IF f = "main" THEN DocFile(PrevDoc(k)) ELSE Missing],
                 MaxGridOps)

SpecGrid == InitGrid /\ [][Next]_vars

\* Construction alone, from every combination of missing, unreadable and
\* readable preset files.
InitAnyFiles ==
    \E m \in FileKinds({PrevDoc(0), PrevDoc(1)}) :
        \E fb \in [{"bic", "mod", "ech"} -> FileKinds({<<>>, BankDoc})] :
            InitWith([f \in FileNames |-> IF f = "main" THEN m ELSE fb[f]], 0)

SpecInit == InitAnyFiles /\ [][Construct]_vars

\* Sliders and knobs: a session that moves sliders, loads presets, and opens
\* the Edit page up to MaxOpens times.  The store holds two presets of an
\* earlier session, the second saved with two sliders moved.
MaxOpens == 2

TunedEntry ==
    [name |-> <<"T">>, position |-> ScanOrder[2],
     values |-> [SliderDefaults EXCEPT !["DECAY"] = 377, !["WEIGHT"] = 10],
     modulation |-> ValueMapDefaults]

BindDoc == <<SessionEntry(1), TunedEntry>>

\* A slider with a knob and the one without; a knob with a slider and one
\* without; raw values off and on a multiple of ten.
BindSliders == {"DECAY", "WEIGHT"}
BindSliderInputs == {123}
TurnedKnobs == {"DECAY", "SIZE"}
KnobInputs == {37}

InitBind ==
    InitWith([f \in FileNames |->
                 IF f = "main" THEN DocFile(BindDoc) ELSE Missing], MaxOpens)

NextBind ==
    \/ Construct
    \/ \E n \in BindSliders, v \in BindSliderInputs : MoveSlider(n, v)
    \/ ShowPresets
    \/ CloseWindow
    \/ \E i \in DOMAIN win.items : LoadPreset(i)
    \/ ShowEditPreset
    \/ \E k \in TurnedKnobs, v \in KnobInputs : TurnKnob(k, v)
    \/ CloseEdit(TRUE)
    \/ CloseEdit(FALSE)

SpecBind == InitBind /\ [][NextBind]_vars

\* One Edit page and its DECAY dial turned to every value of its range.
MaxKnobOpens == 1
DialMax == 100

InitKnob ==
    InitWith([f \in FileNames |-> Missing], MaxKnobOpens)

NextKnob ==
    \/ Construct
    \/ \E v \in BindSliderInputs : MoveSlider("DECAY", v)
    \/ ShowEditPreset
    \/ \E v \in 0..DialMax : TurnKnob("DECAY", v)
    \/ CloseEdit(FALSE)

SpecKnob == InitKnob /\ [][NextKnob]_vars

\* One Edit page, and the sliders dragged to raw values whose last digit
\* is below, at and above the half, at both ends of the range.
MaxSliderOpens == 1
SweepInputs == {0, 4, 127, 995, 1000}

InitSlider ==
    InitWith([f \in FileNames |-> Missing], MaxSliderOpens)

NextSlider ==
    \/ Construct
    \/ \E n \in BindSliders, v \in SweepInputs : MoveSlider(n, v)
    \/ ShowEditPreset
    \/ \E v \in KnobInputs : TurnKnob("DECAY", v)
    \/ CloseEdit(FALSE)

SpecSlider == InitSlider /\ [][NextSlider]_vars

\* The modulation page: its knobs, the handlers of its three banks, and the
\* presets browser of the main screen.  The bank files are missing and the
\* main store holds the two presets of an earlier session.
BankTyped == {<<" ", "A", " ">>, <<" ">>}
BankKnobInputs == {7}
TurnedBankKnobs == {<<"bic", "Rate">>, <<"mod", "Speed">>}

InitBank ==
    InitWith([f \in FileNames |->
                 IF f = "main" THEN DocFile(BindDoc) ELSE Missing], 0)

NextBank ==
    \/ Construct
    \/ ShowModulationPage
    \/ \E t \in TurnedBankKnobs, v \in BankKnobInputs : TurnBankKnob(t[1], t[2], v)
    \/ \E b \in DOMAIN banks, typed \in BankTyped, accepted, overwrite \in BOOLEAN,
          io \in IoOutcomes : save_preset(b, typed, accepted, overwrite, io)
    \/ \E b \in DOMAIN banks, io \in IoOutcomes : update_preset(b, io)
    \/ \E b \in DOMAIN banks, i \in 1..1 : select_preset(b, i)
    \/ \E ios \in [DOMAIN banks -> IoOutcomes] : on_close(ios)
    \/ ShowPresets
    \/ CloseWindow
    \/ \E i \in DOMAIN win.items : LoadPreset(i)

SpecBank == InitBank /\ [][NextBank]_vars

\* The SoniSphere pad.  Offsets from the pad centre of the event positions:
\* on and next to the cursors' start positions (inside and just outside the
\* press tolerance), inside the circle, on it, and beyond it inside and
\* outside the widget.
PadOffsets ==
    {<<-20, 0>>, <<-6, 0>>, <<-5, 0>>, <<28, 0>>, <<0, 0>>,
     <<-141, -141>>, <<120, 90>>,
     <<-200, 0>>, <<0, -200>>, <<-160, -120>>, <<56, 192>>,
     <<-172, -129>>, <<-400, -300>>, <<63, 216>>, <<300, 0>>,
     <<-512, 0>>, <<0, -300>>, <<-640, -480>>}

MousePoints ==
    {p \in {<<Centre[1] + d[1], Centre[2] + d[2]>> : d \in PadOffsets} : Exact(p)}

InitPad == InitWith([f \in FileNames |-> Missing], 0)

NextPad ==
    \/ Construct
    \/ ShowSonispherePage
    \/ \E p \in MousePoints : MousePress(p)
    \/ \E p \in MousePoints : MouseMove(p)
    \/ MouseRelease
    \/ reset_positions
    \/ \E c \in Corners, idx \in CornerButtons :
           open_presets_page(ButtonKey(c, idx))

SpecPad == InitPad /\ [][NextPad]_vars

\* ------------------------------------------------------------------ claims

\* The Save of the dialog was pressed in the last operation.
Accepted(l) == l.io # "none"

SamePreset(e1, e2) ==
    /\ e1.position = e2.position
    /\ e1.values = e2.values
    /\ e1.modulation = e2.modulation

\* The grid coordinates no preset of d occupies.
FreeSlots(d) ==
    LET used == UsedPositions(d)
    IN  {rc \in Rows \X (1..NumCols) : Pos(rc[1], rc[2]) \notin used}

\* The free coordinate that comes first by row, then by column.
FirstFreeSlot(d) ==
    LET free == FreeSlots(d)
        rc   == CHOOSE x \in free :
                   \A y \in free : x[1] < y[1] \/ (x[1] = y[1] /\ x[2] <= y[2])
    IN  Pos(rc[1], rc[2])

\* C1: a save under a name the store already holds shows "Duplicate Name"
\* and changes neither the store nor the file; the store keeps exactly one
\* entry of that name.
C1_DuplicateSaveRejected ==
    [][(/\ last'.op = "save"
        /\ Accepted(last')
        /\ DictHas(presets, last'.new))
       => (/\ dialog' = "Duplicate Name"
           /\ presets' = presets
           /\ files' = files
           /\ Cardinality({i \in DOMAIN presets' :
                              presets'[i].name = last'.new}) = 1)]_vars

C1_Witness ==
    /\ last.op = "save"
    /\ dialog = "Duplicate Name"
    /\ DictHas(presets, last.new)

\* C2: while a grid slot is free, a successful save gives the new preset the
\* first free slot by row, then column, of the store as it is at that moment
\* (so k saves into an empty store take the first k slots in scan order,
\* and a slot freed by a delete is taken again).
C2_SaveTakesFirstFreeSlot ==
    [][(/\ last'.op = "save"
        /\ dialog' = "Success"
        /\ FreeSlots(presets) # {})
       => (/\ DictHas(presets', last'.new)
           /\ DictGet(presets', last'.new).position = FirstFreeSlot(presets)
           /\ Len(presets') = Len(presets) + 1)]_vars

\* The store of 24 saves, its first preset deleted, and a save that took the
\* freed slot 1A.
C2_Witness ==
    /\ last.op = "save"
    /\ dialog = "Success"
    /\ Len(presets) = NumRows * NumCols
    /\ DictGet(presets, last.new).position = "1A"
    /\ ~DictHas(presets, SessionName(1))

\* C3: with every grid slot occupied, a further save reports an error and
\* adds no preset.
C3_FullGridSaveRejected ==
    [][(/\ last'.op = "save"
        /\ Accepted(last')
        /\ last'.new # <<>>
        /\ ~DictHas(presets, last'.new)
        /\ FreeSlots(presets) = {})
       => (/\ presets' = presets
           /\ dialog' \notin {"Success", "none"})]_vars

\* C4: no two presets of the store hold the same slot.
C4_SlotsUnique ==
    \A i, j \in DOMAIN presets :
        i # j => presets[i].position # presets[j].position

\* C5: after a successful save, rename or delete, the main preset file holds
\* the store as it is in memory.
C5_DiskEqualsMemory ==
    (/\ pc = "running"
     /\ \/ last.op = "save" /\ dialog = "Success" /\ last.io = "ok"
        \/ last.op \in {"rename", "delete"} /\ Accepted(last) /\ dialog = "none")
    => files["main"] = DocFile(JsonDump(presets))

\* C6: a rename of a preset of the store to another name the store holds
\* shows "Duplicate Name" and leaves the store as it was.
C6_RenameToExistingRejected ==
    [][(/\ last'.op = "rename"
        /\ Accepted(last')
        /\ last'.new # last'.old
        /\ DictHas(presets, last'.old)
        /\ DictHas(presets, last'.new))
       => (/\ dialog' = "Duplicate Name"
           /\ presets' = presets
           /\ files' = files)]_vars

C6_Witness ==
    /\ last.op = "rename"
    /\ dialog = "Duplicate Name"
    /\ last.new # last.old
    /\ DictHas(presets, last.old)
    /\ DictHas(presets, last.new)

\* C7: a rename of a preset to its own name succeeds and changes nothing,
\* the order of the names included.
C7_RenameToSelfIsNoOp ==
    [][(/\ last'.op = "rename"
        /\ Accepted(last')
        /\ last'.new = last'.old
        /\ DictHas(presets, last'.old))
       => (/\ dialog' = "none"
           /\ pc' = "running"
           /\ presets' = presets
           /\ ListNames(presets') = ListNames(presets))]_vars

\* C8: a rename of old to a name the store does not hold leaves the new name
\* with the slot and the values old had, old absent, and every other preset
\* as it was.
C8_RenameMovesEntry ==
    [][(/\ last'.op = "rename"
        /\ Accepted(last')
        /\ last'.new # <<>>
        /\ last'.new # last'.old
        /\ DictHas(presets, last'.old)
        /\ ~DictHas(presets, last'.new))
       => (/\ dialog' = "none"
           /\ DictKeys(presets') =
                 (DictKeys(presets) \ {last'.old}) \cup {last'.new}
           /\ Len(presets') = Len(presets)
           /\ SamePreset(DictGet(presets', last'.new),
                         DictGet(presets, last'.old))
           /\ \A n \in DictKeys(presets) \ {last'.old} :
                 DictGet(presets', n) = DictGet(presets, n))]_vars

C8_Witness ==
    /\ pc = "running"
    /\ last.op = "rename"
    /\ Accepted(last)
    /\ dialog = "none"
    /\ last.new # last.old
    /\ DictHas(presets, last.new)
    /\ ~DictHas(presets, last.old)
    /\ Len(presets) >= 2

\* C9: construction completes whatever the four preset files hold: a
\* missing or unreadable file gives an empty store, an unreadable file is
\* reported, and no file is changed.
C9_LoadIsBestEffort ==
    pc # "init" =>
        /\ pc = "running"
        /\ \A b \in {"bic", "mod", "ech"} :
              files[b].kind # "doc" => banks[b] = <<>>
        /\ files["main"].kind # "doc" => presets = <<>>
        /\ files["main"].kind = "malformed" => log = "read error"

\* C10: a save whose file write fails keeps the new preset in memory and
\* does not report success.
C10_WriteFailureReported ==
    (last.op = "save" /\ last.io \in {"open_fails", "dump_fails"})
    => (DictHas(presets, last.new) /\ dialog # "Success")

\* ------------------------------------------------- claims: load and binding

\* C11 as stated: loading a preset changes neither the current preset name
\* nor the current preset position, and does not modify the stored presets.
C11_LoadKeepsCurrent ==
    [][last'.op = "load" =>
          /\ current_preset_name' = current_preset_name
          /\ current_preset_position' = current_preset_position
          /\ presets' = presets]_vars

\* C11 amended: loading a stored preset makes it the current selection (the
\* current position becomes the loaded preset's slot) and modifies neither
\* the stored presets nor the preset file.
C11_LoadSelectsLoaded ==
    [][last'.op = "load" /\ last'.old # <<>> =>
          /\ DictHas(presets, last'.old)
          /\ current_preset_position' = DictGet(presets, last'.old).position
          /\ presets' = presets
          /\ files' = files]_vars

C11_Witness ==
    /\ last.op = "load"
    /\ last.old = TunedEntry.name
    /\ current_preset_position = TunedEntry.position
    /\ sliders["DECAY"] = TunedEntry.values["DECAY"]

\* The dial of the page that is open (self.knob_controls).
LiveDial(ds, name) == ds[Len(ds)].dial[name]

\* C12: a knob turned to k sets its slider to 10 * k, and sending the
\* slider's resulting value back through slider_to_knob and knob_to_slider
\* gives the same knob and slider values again.
C12_KnobSetsSliderIdempotent ==
    [][last'.op = "knob" =>
          \A n \in KnobNames :
              Bound(n) /\ LiveDial(dials', n) # LiveDial(dials, n) =>
                  LET k == LiveDial(dials', n)
                      s == sliders'[KnobKey(n)]
                  IN  /\ s = 10 * k
                      /\ SliderToKnobValue(s) = k
                      /\ KnobToSliderValue(SliderToKnobValue(s)) = s
                      /\ \A i \in 1..(Len(dials) - 1) : dials'[i] = dials[i]]_vars

C12_Witness ==
    /\ last.op = "knob"
    /\ LiveDial(dials, "DECAY") = DialMax
    /\ sliders["DECAY"] = 10 * DialMax

\* The controls of a parameter the user can reach: its slider and, once a
\* page has been built, the dial of the latest page.
LiveControls == IF dials = <<>> THEN 1 ELSE 2

\* C13: one user change of a slider or a knob writes at most
\* (live controls - 1) other controls.
C13_WritesBounded ==
    [][last'.op \in {"slider", "knob"} =>
          Cardinality(writes') <= LiveControls - 1]_vars

\* C14: the slider and the dial of a bound parameter agree within one
\* coarse step, |s - 10 * k| < 10.
C14_SliderKnobAgree ==
    dials # <<>> =>
        \A n \in KnobNames :
            Bound(n) =>
                LET s == sliders[KnobKey(n)]
                    k == LiveDial(dials, n)
                IN  s - 10 * k < 10 /\ 10 * k - s < 10

C14_Witness ==
    /\ Len(dials) = 2
    /\ last.op = "slider"
    /\ sliders["DECAY"] = 123
    /\ LiveDial(dials, "DECAY") = 12

\* C15: a slider change updates the stored value of its parameter in
\* preset_values (to within one coarse step), also when no Edit page has
\* been built and when the slider has no knob.
C15_SliderUpdatesCache ==
    [][last'.op = "slider" =>
          \A n \in SliderNames :
              sliders'[n] # sliders[n] =>
                  preset_values'[n] \div 10 = sliders'[n] \div 10]_vars

\* C16: a slider change or a load writes no dial of a closed page, and at
\* most one dial is ever bound to a slider.
C16_ClosedPagesUnregistered ==
    [][/\ last'.op \in {"slider", "load"} =>
              \A w \in writes' :
                  w.ctl = "knob" => edit_open /\ w.page = Len(dials)
       /\ Len(dials') <= 1]_vars

\* ------------------------------------------------------- claims: SoniSphere

InCircle(p) == SquaredLength(Minus(p, Centre)) <= Radius * Radius

\* The cursor a move event moves: the primary while it is dragged, else the
\* secondary while that is dragged.
Dragged(cp, sp) == IF dragging THEN cp ELSE sp

\* C17: both cursors are always inside or on the circle of radius 200; a
\* move to a point beyond the radius stores the dragged cursor at exactly the
\* radius in the same direction, and a point within the radius is stored
\* unchanged.
C17_CursorsStayInCircle ==
    /\ [](InCircle(cursor_pos) /\ InCircle(secondary_pos))
    /\ [][last'.op = "move" /\ (dragging \/ secondary_dragging) =>
             LET d == Minus(mouse', Centre)
                 c == Minus(Dragged(cursor_pos', secondary_pos'), Centre)
             IN  IF SquaredLength(d) > Radius * Radius
                 THEN /\ SquaredLength(c) = Radius * Radius
                      /\ c[1] * d[2] = c[2] * d[1]
                      /\ c[1] * d[1] + c[2] * d[2] > 0
                 ELSE c = d]_vars

C17_Witness ==
    /\ last.op = "move"
    /\ dragging
    /\ mouse = <<Centre[1] - 400, Centre[2] - 300>>
    /\ cursor_pos = <<Centre[1] - 160, Centre[2] - 120>>

\* C18: at most one cursor is in the dragging state, and a press that is
\* within the tolerance of neither cursor starts no drag and moves no cursor.
C18_OneDragAtATime ==
    [][/\ ~(dragging' /\ secondary_dragging')
       /\ (/\ last'.op = "press"
           /\ ManhattanLength(Minus(cursor_pos, mouse')) >= Tolerance
           /\ ManhattanLength(Minus(secondary_pos, mouse')) >= Tolerance)
          => UNCHANGED <<dragging, secondary_dragging, cursor_pos,
                         secondary_pos>>]_vars

\* A weight <<n, d>> as a number: between 0 and 1.
IsShare(w) == w[2] > 0 /\ 0 <= w[1] /\ w[1] <= w[2]

\* C19: the four weights of calculate_blend are each between 0 and 1 and
\* sum to 1, at every position the primary cursor reaches.
C19_BlendIsPartition ==
    LET b == calculate_blend(cursor_pos)
    IN  /\ \A k \in DOMAIN b : IsShare(b[k]) /\ b[k][2] = b.A[2]
        /\ b.A[1] + b.B[1] + b.C[1] + b.D[1] = b.A[2]

C19_Witness ==
    /\ last.op = "move"
    /\ cursor_pos = <<Centre[1] - 200, Centre[2]>>
    /\ calculate_blend(cursor_pos).A[1] > calculate_blend(cursor_pos).B[1]

\* The positions the primary cursor can be moved to, and the one of them
\* nearest the top-left corner of the pad.
Reachable == {clamp_point_to_circle(p, Centre, Radius) : p \in MousePoints}

AtTopLeftExtreme ==
    /\ cursor_pos \in Reachable
    /\ \A q \in Reachable : cursor_pos[1] + cursor_pos[2] <= q[1] + q[2]

\* C20: with the primary cursor at the top-left extreme, the weight of A is
\* 1 and the weights of B, C and D are 0.
C20_TopLeftIsAllA ==
    AtTopLeftExtreme =>
        LET b == calculate_blend(cursor_pos)
        IN  b.A[1] = b.A[2] /\ b.B[1] = 0 /\ b.C[1] = 0 /\ b.D[1] = 0

\* ------------------------------------------- claims: rounding and displays

\* The sliders a step changed that have a dial on the latest page.
ChangedBound(n) ==
    Bound(n) /\ dials # <<>> /\ sliders'[KnobKey(n)] # sliders[KnobKey(n)]

\* C23: a user change of a slider to raw value v sets its knob to v / 10
\* rounded to the nearest whole number.
C23_SliderRoundsKnob ==
    [][last'.op = "slider" =>
          \A n \in KnobNames :
              ChangedBound(n) =>
                  LiveDial(dials', n) = Round(sliders'[KnobKey(n)])]_vars

\* C24: after a user change of a bound slider to v the stored value of the
\* parameter is v / 10 with its tenths digit, and after a knob change to k
\* it is k.
C24_CanonicalExact ==
    [][/\ last'.op = "slider" =>
              \A n \in KnobNames :
                  ChangedBound(n) =>
                      preset_values'[KnobKey(n)] = sliders'[KnobKey(n)]
       /\ last'.op = "knob" =>
              \A n \in KnobNames :
                  Bound(n) /\ LiveDial(dials', n) # LiveDial(dials, n) =>
                      preset_values'[KnobKey(n)] = 10 * LiveDial(dials', n)]_vars

\* C25: after a slider or knob change, the label under every slider shows
\* the slider's value and the LCD under every dial of the page shows the
\* dial's value.
C25_DisplaysCurrent ==
    [][last'.op \in {"slider", "knob"} =>
          /\ \A n \in SliderNames : slider_label'[n] = sliders'[n]
          /\ dials' # <<>> =>
                 \A k \in KnobNames :
                     dials'[Len(dials')].lcd[k] = LiveDial(dials', k)]_vars

\* C29: opening the Edit page changes no slider's value.
C29_EditOpenKeepsSliders ==
    [][last'.op = "edit" => sliders' = sliders]_vars

\* ------------------------------------------------------ claims: the corners

\* C21: a corner's button advances only that corner's preset to the next
\* one, from the last back to the first, and leaves the other corners, both
\* cursors, the drag flags and the blend weights as they were.
C21_CycleAdvancesCorner ==
    [][last'.op = "corner" =>
          \E c \in Corners :
              /\ \E idx \in CornerButtons : last'.new = <<ButtonKey(c, idx)>>
              /\ corner_presets'[c] = (corner_presets[c] % PresetCycle) + 1
              /\ \A d \in Corners \ {c} : corner_presets'[d] = corner_presets[d]
              /\ cursor_pos' = cursor_pos
              /\ secondary_pos' = secondary_pos
              /\ dragging' = dragging
              /\ secondary_dragging' = secondary_dragging
              /\ calculate_blend(cursor_pos') = calculate_blend(cursor_pos)]_vars

\* ------------------------------------------------ claims: the modulation banks

\* The unit of the last bank operation.
Unit(l) == l.old[1]

\* The last step pressed Save in unit b's save dialog with a name that the
\* bank held.
SavedExisting(b) ==
    /\ last'.op = "bank save"
    /\ last'.new # <<>>
    /\ Unit(last') = b
    /\ DictHas(banks[b], last'.new)

C28_LoadSetsCurrent ==
    [][last'.op = "load" /\ last'.old # <<>> =>
          /\ current_preset_name' = last'.old
          /\ current_preset_position' = DictGet(presets, last'.old).position]_vars

\* ------------------------------------------------ claims: the current preset

\* The current preset name is a preset of the main store, and the current
\* position is its slot.
CurrentNamesPreset ==
    /\ DictHas(presets, current_preset_name)
    /\ DictGet(presets, current_preset_name).position = current_preset_position

\* C30: once a save or a load has set the current preset, every later save,
\* load, rename and delete leaves it naming a preset of the main store, with
\* that preset's slot as the current position.
C30_CurrentStaysPresent ==
    [][\/ current_preset_name' # current_preset_name
       \/ current_preset_position' # current_preset_position
       \/ CurrentNamesPreset
       => CurrentNamesPreset']_vars

====
